---- MODULE Spec2Model ----
(***************************************************************************)
(* A model of AminoSim: the Newick reader (tree.rs, build_from_newick),    *)
(* the loader (parsers.rs), the HKY mutator (mutator.rs, sequence.rs),     *)
(* the depth-first evolution (tree.rs, dfs_evolve) and main's pipeline     *)
(* (main.rs).                                                              *)
(*                                                                         *)
(* Conventions.  A Rust String is a sequence of one-character strings.     *)
(* Option<T> and Result<T, _> are sequences of length at most one:         *)
(* None/Err is << >>, Some(x)/Ok(x) is << x >>.  An f64 is a record        *)
(* [k, v]: a finite number v (k = "num"), NaN, or an infinity of sign v.   *)
(* A probability is an integer number of thousandths.                      *)
(***************************************************************************)
EXTENDS Integers, Sequences, FiniteSets, TLC

(***************************************************************************)
(* Bounds of the model.                                                    *)
(***************************************************************************)
\* longest tree string drawn from all strings over Alphabet
MaxLen == 4
\* most nodes of a tree whose Newick text is drawn as input of the reader
MaxNodes == 4
\* most nodes of a tree drawn as input of the evolution
MaxEvNodes == 3
\* largest partition length drawn for a tree
MaxPart == 1
\* most lines of the tree file and of the partition file
MaxLines == 2
\* most method calls made on a tree that is called directly
MaxCalls == 3
\* longest sequence handed to a call of HKY::mutate on its own, and
\* asked of HKY::random
MaxSeq == 2

None == << >>
Some(x) == << x >>
IsSome(o) == Len(o) = 1
IsNone(o) == Len(o) = 0
Unwrap(o) == o[1]

(***************************************************************************)
(* Strings.                                                                *)
(***************************************************************************)
IsWhitespace(c) == c = " "

RECURSIVE TrimStart(_)
TrimStart(s) ==
    IF Len(s) > 0 /\ IsWhitespace(Head(s)) THEN TrimStart(Tail(s)) ELSE s

RECURSIVE TrimEnd(_)
TrimEnd(s) ==
    IF Len(s) > 0 /\ IsWhitespace(s[Len(s)])
    THEN TrimEnd(SubSeq(s, 1, Len(s) - 1))
    ELSE s

\* str::trim
Trim(s) == TrimEnd(TrimStart(s))

\* str::ends_with(char)
EndsWith(s, c) == Len(s) > 0 /\ s[Len(s)] = c

Digits == {"0", "1", "2", "3", "4", "5", "6", "7", "8", "9"}

DigitVal(c) ==
    CASE c = "0" -> 0 [] c = "1" -> 1 [] c = "2" -> 2 [] c = "3" -> 3
      [] c = "4" -> 4 [] c = "5" -> 5 [] c = "6" -> 6 [] c = "7" -> 7
      [] c = "8" -> 8 [] c = "9" -> 9

RECURSIVE DecVal(_)
DecVal(s) ==
    IF Len(s) = 0 THEN 0
    ELSE 10 * DecVal(SubSeq(s, 1, Len(s) - 1)) + DigitVal(s[Len(s)])

AllDigits(s) == Len(s) > 0 /\ \A i \in 1..Len(s) : s[i] \in Digits

Lower(c) ==
    CASE c = "A" -> "a" [] c = "F" -> "f" [] c = "I" -> "i" [] c = "N" -> "n"
      [] c = "T" -> "t" [] c = "Y" -> "y" [] OTHER -> c

(***************************************************************************)
(* f64 values and str::parse.                                              *)
(***************************************************************************)
\* the resolution of a finite value: thousandths
Unit == 10 * 10 * 10

Num(n) == [k |-> "num", v |-> n]
NaN == [k |-> "nan", v |-> 0]
Inf(sign) == [k |-> "inf", v |-> sign]

\* str::parse::<f64>: [sign] (digits | inf | infinity | nan), the last three
\* in any case.  The fraction and exponent forms of the grammar need '.',
\* 'e' or 'E', which no input of this model holds.
ParseF64(buf) ==
    LET signed == Len(buf) > 0 /\ buf[1] \in {"+", "-"}
        sign == IF signed /\ buf[1] = "-" THEN -1 ELSE 1
        body == IF signed THEN Tail(buf) ELSE buf
        low == [i \in 1..Len(body) |-> Lower(body[i])]
    IN  IF AllDigits(body) THEN Some(Num(sign * DecVal(body) * Unit))
        ELSE IF low = <<"n", "a", "n">> THEN Some(NaN)
        ELSE IF low = <<"i", "n", "f">>
                \/ low = <<"i", "n", "f", "i", "n", "i", "t", "y">>
             THEN Some(Inf(sign))
        ELSE None

\* str::parse::<usize>: an optional '+', then digits
ParseUsize(line) ==
    LET body == IF Len(line) > 0 /\ line[1] = "+" THEN Tail(line) ELSE line
    IN  IF AllDigits(body) THEN Some(DecVal(body)) ELSE None

(***************************************************************************)
(* NNode.                                                                  *)
(***************************************************************************)
new_empty ==
    [children |-> << >>, id |-> None, branch_length |-> Num(0),
     sequence |-> None]

\* set_id without the test of the length: an empty label is an id
set_id_blank(node, s) == [node EXCEPT !.id = Some(s)]

set_id(node, s) ==
    [node EXCEPT !.id = IF Len(s) > 0 THEN Some(s) ELSE None]

set_branch_length(node, d) == [node EXCEPT !.branch_length = d]

\* whether consume panics: the branch text does not parse, or the flag is
\* neither 1 nor 2
consume_panics(flag, buf) ==
    \/ flag = 2 /\ IsNone(ParseF64(buf))
    \/ flag \notin {1, 2}

\* the node after consume, where it does not panic
consume(node, flag, buf) ==
    IF flag = 1 THEN set_id(node, buf)
    ELSE set_branch_length(node, Unwrap(ParseF64(buf)))

\* add_child putting the child first
add_child_front(node, c) == [node EXCEPT !.children = << c >> \o @]

add_child(node, c) == [node EXCEPT !.children = Append(@, c)]

(***************************************************************************)
(* NTree, with the frame of the method running on it (call) and that       *)
(* method's locals.  A panic ends the method; err holds its message.       *)
(***************************************************************************)
NoLocals ==
    [pos |-> 0, stack |-> << >>, buffer |-> << >>, read_flag |-> 0,
     break_bool |-> FALSE, curr_node |-> << >>, estack |-> << >>]

\* NTree::new
NTree_new(p, s) ==
    [root |-> None, size |-> 0, partition |-> p, build_str |-> s,
     call |-> "idle", err |-> "", loc |-> NoLocals]

Panic(t, msg) == [t EXCEPT !.call = "panic", !.err = msg, !.loc = NoLocals]

\* the entry without the assert that the tree is not built
build_enter_again(t) ==
    [t EXCEPT !.call = "build",
              !.loc = [NoLocals EXCEPT !.pos = 1, !.read_flag = 1,
                                       !.curr_node = Some(new_empty)]]

\* entry of build_from_newick: the assert and the locals
build_enter(t) ==
    IF IsSome(t.root) THEN Panic(t, "Tree already built!")
    ELSE [t EXCEPT !.call = "build",
                   !.loc = [NoLocals EXCEPT !.pos = 1, !.read_flag = 1,
                                            !.curr_node = Some(new_empty)]]

\* c_o: the character the iterator last returned
c_o(t) ==
    IF t.loc.pos <= Len(t.build_str) THEN Some(t.build_str[t.loc.pos])
    ELSE None

\* the while loop runs another turn
build_looping(t) ==
    t.call = "build" /\ IsSome(c_o(t)) /\ ~t.loc.break_bool

\* one turn of the while loop
build_scan(t) ==
    LET c == Unwrap(c_o(t))
        l == t.loc
        curr == Unwrap(l.curr_node)
        buf == Trim(l.buffer)
        stk_len == Len(l.stack)
        next == [l EXCEPT !.pos = @ + 1]
    IN  IF c = "(" THEN
            [t EXCEPT !.loc = [next EXCEPT !.stack = Append(@, curr),
                                           !.curr_node = Some(new_empty)]]
        ELSE IF c = "," \/ c = ")" THEN
            IF ~(stk_len > 0) THEN Panic(t, "Empty tree building stack")
            ELSE IF consume_panics(l.read_flag, buf)
                 THEN Panic(t, "Could not parse into branch!")
            ELSE
                LET done == consume(curr, l.read_flag, buf)
                    stack2 == [l.stack EXCEPT ![stk_len] = add_child(@, done)]
                IN  [t EXCEPT
                       !.size = @ + 1,
                       !.loc = [next EXCEPT
                          !.buffer = << >>,
                          !.read_flag = 1,
                          !.stack = IF c = "," THEN stack2
                                    ELSE SubSeq(stack2, 1, stk_len - 1),
                          !.curr_node = IF c = "," THEN Some(new_empty)
                                        ELSE Some(stack2[stk_len])]]
        ELSE IF c = ":" THEN
            IF consume_panics(l.read_flag, buf)
            THEN Panic(t, "Could not parse into branch!")
            ELSE [t EXCEPT !.loc = [next EXCEPT
                     !.curr_node = Some(consume(curr, l.read_flag, buf)),
                     !.buffer = << >>,
                     !.read_flag = 2]]
        ELSE IF c = ";" THEN
            IF consume_panics(l.read_flag, buf)
            THEN Panic(t, "Could not parse into branch!")
            ELSE [t EXCEPT !.loc = [next EXCEPT
                     !.curr_node = Some(consume(curr, l.read_flag, buf)),
                     !.buffer = << >>,
                     !.break_bool = TRUE]]
        ELSE [t EXCEPT !.loc = [next EXCEPT !.buffer = Append(@, c)]]

\* the end without the balance assert
build_exit_unchecked(t) ==
    [t EXCEPT !.root = t.loc.curr_node,
              !.size = @ + 1,
              !.build_str = << >>,
              !.call = "idle",
              !.loc = NoLocals]

\* the end without the root counted in size
build_exit_uncounted(t) ==
    IF ~(Len(t.loc.stack) = 0) THEN Panic(t, "Unbalanced parens on Newick tree")
    ELSE [t EXCEPT !.root = t.loc.curr_node,
                   !.build_str = << >>,
                   !.call = "idle",
                   !.loc = NoLocals]

\* after the loop: the balance assert, root, size and the cleanup
build_exit(t) ==
    IF ~(Len(t.loc.stack) = 0) THEN Panic(t, "Unbalanced parens on Newick tree")
    ELSE [t EXCEPT !.root = t.loc.curr_node,
                   !.size = @ + 1,
                   !.build_str = << >>,
                   !.call = "idle",
                   !.loc = NoLocals]

RECURSIVE build_loop(_)
build_loop(t) == IF build_looping(t) THEN build_loop(build_scan(t)) ELSE t

\* build_from_newick, from entry to return or panic
build_from_newick(t) ==
    LET u == build_loop(build_enter(t))
    IN  IF u.call = "build" THEN build_exit(u) ELSE u

(***************************************************************************)
(* f64 arithmetic.  A finite value is held in thousandths, so a product    *)
(* and a quotient are rescaled.  The operations follow IEEE 754 on NaN     *)
(* and the infinities.                                                     *)
(***************************************************************************)
Finite(a) == a.k = "num"
IsNaN(a) == a.k = "nan"
Sign(a) == IF a.v < 0 THEN -1 ELSE IF a.v > 0 THEN 1 ELSE 0

\* The operations take their operands as values: x and y below are the
\* operands a and b, each evaluated once.
FNeg(a) ==
    CHOOSE r \in {IF IsNaN(x) THEN NaN ELSE [x EXCEPT !.v = -x.v] :
                     x \in {a}} : TRUE

FAdd(a, b) ==
    CHOOSE r \in
       {IF IsNaN(x) \/ IsNaN(y) THEN NaN
        ELSE IF Finite(x) /\ Finite(y) THEN Num(x.v + y.v)
        ELSE IF Finite(x) THEN y
        ELSE IF Finite(y) THEN x
        ELSE IF x.v = y.v THEN x ELSE NaN : x \in {a}, y \in {b}} : TRUE

FSub(a, b) == FAdd(a, FNeg(b))

FMul(a, b) ==
    CHOOSE r \in
       {IF IsNaN(x) \/ IsNaN(y) THEN NaN
        ELSE IF Finite(x) /\ Finite(y) THEN Num((x.v * y.v) \div Unit)
        ELSE IF Sign(x) = 0 \/ Sign(y) = 0 THEN NaN
        ELSE Inf(Sign(x) * Sign(y)) : x \in {a}, y \in {b}} : TRUE

FDiv(a, b) ==
    CHOOSE r \in
       {IF IsNaN(x) \/ IsNaN(y) THEN NaN
        ELSE IF Finite(x) /\ Finite(y) THEN
            IF y.v # 0 THEN Num((x.v * Unit) \div y.v)
            ELSE IF x.v = 0 THEN NaN ELSE Inf(Sign(x))
        ELSE IF Finite(y) THEN Inf(Sign(x) * (IF y.v < 0 THEN -1 ELSE 1))
        ELSE IF Finite(x) THEN Num(0)
        ELSE NaN : x \in {a}, y \in {b}} : TRUE

\* a < b; false when either is NaN
FLt(a, b) ==
    \E x \in {a}, y \in {b} :
       IF IsNaN(x) \/ IsNaN(y) THEN FALSE
       ELSE IF Finite(x) /\ Finite(y) THEN x.v < y.v
       ELSE IF Finite(x) THEN y.v > 0
       ELSE IF Finite(y) THEN x.v < 0
       ELSE x.v < y.v

\* e^n in thousandths for a whole n in -7..6; below that range it rounds to 0
ExpWhole(n) ==
    CASE n < -7 -> 0
      [] n = -7 -> 1 [] n = -6 -> 2 [] n = -5 -> 7 [] n = -4 -> 18
      [] n = -3 -> 50 [] n = -2 -> 135 [] n = -1 -> 368 [] n = 0 -> Unit
      [] n = 1 -> 2718 [] n = 2 -> 7389 [] n = 3 -> 20086 [] n = 4 -> 54598
      [] n = 5 -> 148413 [] n = 6 -> 403429

\* e^(f/1000) in thousandths for 0 <= f < 1000: the series to the fifth power
ExpFrac(f) ==
    LET f2 == (f * f) \div Unit
        f3 == (f2 * f) \div Unit
        f4 == (f3 * f) \div Unit
        f5 == (f4 * f) \div Unit
    IN  Unit + f + f2 \div 2 + f3 \div 6 + f4 \div 24 + f5 \div 120

\* E.powf(y).  A finite y of 7 or more is outside the range the model
\* evaluates (no input of the model leads there).
FExp(y) ==
    CHOOSE r \in
       {IF IsNaN(x) THEN NaN
        ELSE IF ~Finite(x) THEN (IF x.v > 0 THEN Inf(1) ELSE Num(0))
        ELSE Num((ExpWhole(x.v \div Unit) * ExpFrac(x.v % Unit)) \div Unit) :
          x \in {y}} : TRUE

(***************************************************************************)
(* Sequence.  Every Sequence of a run carries the same freq_table and      *)
(* max_freq, those of the one HKY model; they are FreqTable and MaxFreq    *)
(* here and a Sequence value holds its nucleotides and its size.           *)
(***************************************************************************)
\* the model main builds: HKY::new(0.25, 0.25, 0.25, 0.25, 'A', 'G', 'C',
\* 'T', 1.0, scale)
nuc_frequencies == << Num(Unit \div 4), Num(Unit \div 4), Num(Unit \div 4),
                     Num(Unit \div 4) >>
bases == << 65, 71, 67, 84 >>
kappa == Num(Unit)
\* the default of --scale
scale == Num(Unit)

\* beta of HKY::new
beta ==
    LET pa == nuc_frequencies[1]
        pg == nuc_frequencies[2]
        pc == nuc_frequencies[3]
        pt == nuc_frequencies[4]
    IN  FDiv(Num(Unit),
             FAdd(FMul(Num(2 * Unit), FMul(FAdd(pa, pg), FAdd(pc, pt))),
                  FMul(FMul(Num(2 * Unit), kappa),
                       FAdd(FMul(pa, pg), FMul(pc, pt)))))

\* the freq_table mutate and random build
FreqTable == [i \in 1..4 |-> << bases[i], nuc_frequencies[i] >>]

RECURSIVE SumFreq(_, _)
SumFreq(t, n) == IF n = 0 THEN Num(0) ELSE FAdd(SumFreq(t, n - 1), t[n][2])

\* get_cumulative
get_cumulative(t) == SumFreq(t, Len(t))

MaxFreq == get_cumulative(FreqTable)

\* the walk shared by Sequence::sample and HKY::mutate: the first index i
\* of weights with r (less the weights before i) below weights[i]; 0 when
\* there is none
RECURSIVE Walk(_, _, _)
Walk(weights, r, i) ==
    IF i > Len(weights) THEN 0
    ELSE IF FLt(r, weights[i]) THEN i
    ELSE Walk(weights, FSub(r, weights[i]), i + 1)

\* Sequence::sample on the draw r: the code of the symbol, 0 where the
\* assert fails
sample(r) ==
    LET i == Walk([j \in 1..4 |-> FreqTable[j][2]], Num(r), 1)
    IN  IF i = 0 THEN 0 ELSE FreqTable[i][1]

\* Sequence::from_vec
from_vec(s) == [nucleotides |-> s, size |-> Len(s)]

\* Sequence::new, with append(l), on the draws rs (one for each symbol): a
\* Result, Err where sample's assert fails
Sequence_new(l, rs) ==
    LET nucs == [i \in 1..l |-> sample(rs[i])]
    IN  IF \E i \in 1..l : nucs[i] = 0 THEN None
        ELSE Some([nucleotides |-> nucs, size |-> 0 + l])

\* Sequence::to_string: the characters of the bytes
Chr(b) ==
    CASE b = 65 -> "A" [] b = 71 -> "G" [] b = 67 -> "C" [] b = 84 -> "T"
      [] OTHER -> "?"

to_string(s) == [i \in 1..Len(s.nucleotides) |-> Chr(s.nucleotides[i])]

(***************************************************************************)
(* HKY.                                                                    *)
(***************************************************************************)
\* the matrix mutate builds from the frequencies and its five coefficients,
\* rows and columns in the order of bases
transition_rows(pa, pg, pc, pt, ag_ts_c, ag_ts_e, ct_ts_c, ct_ts_e, tv_c) ==
    << << FDiv(FAdd(FMul(pa, ag_ts_c), FMul(pg, ag_ts_e)), FAdd(pa, pg)),
          FDiv(FSub(FMul(pg, ag_ts_c), FMul(pg, ag_ts_e)), FAdd(pa, pg)),
          FMul(pc, tv_c),
          FMul(pt, tv_c) >>,
       << FDiv(FSub(FMul(pa, ag_ts_c), FMul(pa, ag_ts_e)), FAdd(pa, pg)),
          FDiv(FAdd(FMul(pg, ag_ts_c), FMul(pa, ag_ts_e)), FAdd(pa, pg)),
          FMul(pc, tv_c),
          FMul(pt, tv_c) >>,
       << FMul(pa, tv_c),
          FMul(pg, tv_c),
          FDiv(FAdd(FMul(pc, ct_ts_c), FMul(pt, ct_ts_e)), FAdd(pc, pt)),
          FDiv(FSub(FMul(pt, ct_ts_c), FMul(pt, ct_ts_e)), FAdd(pc, pt)) >>,
       << FMul(pa, tv_c),
          FMul(pg, tv_c),
          FDiv(FSub(FMul(pc, ct_ts_c), FMul(pc, ct_ts_e)), FAdd(pc, pt)),
          FDiv(FAdd(FMul(pt, ct_ts_c), FMul(pc, ct_ts_e)), FAdd(pc, pt)) >> >>

\* the coefficients of mutate from e^(-b * scaled_v) and the two other
\* powers of e, then the matrix
coefficients(pa, pg, pc, pt, ebv, ag_ts_e, ct_ts_e) ==
    transition_rows(pa, pg, pc, pt,
                    FAdd(FAdd(pa, pg), FMul(FAdd(pc, pt), ebv)),
                    ag_ts_e,
                    FAdd(FAdd(pc, pt), FMul(FAdd(pa, pg), ebv)),
                    ct_ts_e,
                    FSub(Num(Unit), ebv))

\* the exponents of mutate for frequencies, b, k and scaled_v, then the
\* matrix
exponents(pa, pg, pc, pt, b, k, scaled_v) ==
    coefficients(pa, pg, pc, pt,
        FExp(FMul(FNeg(b), scaled_v)),
        FExp(FMul(FMul(FNeg(FAdd(Num(Unit),
                 FMul(FAdd(pa, pg), FSub(k, Num(Unit))))), b), scaled_v)),
        FExp(FMul(FMul(FNeg(FAdd(Num(Unit),
                 FMul(FAdd(pc, pt), FSub(k, Num(Unit))))), b), scaled_v)))

\* the transition matrix mutate computes for branch length v
matrix(v) ==
    exponents(nuc_frequencies[1], nuc_frequencies[2], nuc_frequencies[3],
              nuc_frequencies[4], beta, kappa, FMul(v, scale))

\* a lookup that takes an unrecognized base for the first
row_of_first(n) ==
    IF n = bases[2] THEN 2
    ELSE IF n = bases[3] THEN 3
    ELSE IF n = bases[4] THEN 4
    ELSE 1

\* the row of the matrix for symbol n; 0 for an unrecognized base
row_of(n) ==
    IF n = bases[1] THEN 1
    ELSE IF n = bases[2] THEN 2
    ELSE IF n = bases[3] THEN 3
    ELSE IF n = bases[4] THEN 4
    ELSE 0

\* the new base for symbol n under matrix m on the draw r; 0 where no
\* entry is selected
new_base(m, n, r) ==
    LET i == Walk(m[row_of(n)], Num(r), 1)
    IN  IF i = 0 THEN 0 ELSE bases[i]

\* HKY::mutate on the draws rs (one for each symbol): a Result holding a
\* new Sequence, Err where it panics (an unrecognized base, or no entry
\* selected).  The input s is only read.
mutate(s, v, rs) ==
    LET n == Len(s.nucleotides)
    IN  IF \E i \in 1..n : row_of(s.nucleotides[i]) = 0 THEN None
        ELSE CHOOSE ret \in
                {IF \E i \in 1..n : mutated[i] = 0 THEN None
                 ELSE Some(from_vec(mutated)) :
                   mutated \in
                      {[i \in 1..n |-> new_base(m, s.nucleotides[i], rs[i])] :
                         m \in {matrix(v)}}} : TRUE

\* HKY::random
random(l, rs) == Sequence_new(l, rs)

(***************************************************************************)
(* Evolution.  A &mut NNode is the path to the node from the root (the     *)
(* child indices); an Option<&Sequence> is the path of the node that       *)
(* holds the sequence.  A HashMap is a set of << key, value >> pairs with  *)
(* one pair for a key.                                                     *)
(***************************************************************************)
RECURSIVE node_at(_, _)
node_at(n, path) ==
    IF Len(path) = 0 THEN n ELSE node_at(n.children[Head(path)], Tail(path))

RECURSIVE with_sequence(_, _, _)
with_sequence(n, path, seq) ==
    IF Len(path) = 0 THEN [n EXCEPT !.sequence = seq]
    ELSE [n EXCEPT !.children[Head(path)] = with_sequence(@, Tail(path), seq)]

\* the paths of the nodes of the tree under n
RECURSIVE PathsOf(_)
PathsOf(n) ==
    {<< >>} \cup UNION {{<< i >> \o q : q \in PathsOf(n.children[i])} :
                        i \in 1..Len(n.children)}

\* HashMap::insert
insert(h, k, v) == {e \in h : e[1] # k} \cup {<< k, v >>}

keys(h) == {e[1] : e \in h}

get(h, k) == (CHOOSE e \in h : e[1] = k)[2]

\* a create_ancestral that leaves the root without a sequence
create_ancestral_unset(t, rs) ==
    IF IsNone(t.root) THEN Panic(t, "Can't create ancestral for an empty tree")
    ELSE t

\* create_ancestral on the draws rs
create_ancestral(t, rs) ==
    IF IsNone(t.root) THEN Panic(t, "Can't create ancestral for an empty tree")
    ELSE IF IsNone(random(t.partition, rs))
         THEN Panic(t, "Something went terribly wrong in Sequence's sampler")
    ELSE [t EXCEPT !.root = Some([Unwrap(@) EXCEPT
                                     !.sequence = random(t.partition, rs)])]

\* an entry that returns at once on a tree with no root
dfs_enter_lenient(t) ==
    IF IsNone(t.root) THEN t
    ELSE [t EXCEPT !.call = "evolve",
                   !.loc = [NoLocals EXCEPT
                      !.estack = << [node |-> << >>, parent_seq |-> None] >>]]

\* entry of dfs_evolve: the root and the stack
dfs_enter(t) ==
    IF IsNone(t.root) THEN Panic(t, "Can't evolve an empty tree")
    ELSE [t EXCEPT !.call = "evolve",
                   !.loc = [NoLocals EXCEPT
                      !.estack = << [node |-> << >>, parent_seq |-> None] >>]]

dfs_looping(t) == t.call = "evolve" /\ Len(t.loc.estack) > 0

\* the entry the next turn of the loop pops
dfs_top(t) == t.loc.estack[Len(t.loc.estack)]

\* the number of draws the next turn of the loop takes
dfs_draws(t) ==
    IF IsSome(dfs_top(t).parent_seq)
    THEN Len(Unwrap(node_at(Unwrap(t.root),
                            Unwrap(dfs_top(t).parent_seq)).sequence).nucleotides)
    ELSE 0

\* a loop that pushes each child with the root's sequence
dfs_push_root(stack, path, children) ==
    stack \o [i \in 1..Len(children) |->
                 [node |-> Append(path, i), parent_seq |-> Some(<< >>)]]

\* a loop that pushes the first child only
dfs_push_first(stack, path, children) ==
    Append(stack, [node |-> Append(path, 1), parent_seq |-> Some(path)])

\* the stack after the loop that pushes the children of the node at path,
\* each with the node's sequence as its parent's
dfs_push(stack, path, children) ==
    stack \o [i \in 1..Len(children) |->
                 [node |-> Append(path, i), parent_seq |-> Some(path)]]

\* the sequence mutate gives for the popped node, None where there is no
\* parent sequence or mutate panics
dfs_mutated(t, rs) ==
    IF IsSome(dfs_top(t).parent_seq)
    THEN mutate(Unwrap(node_at(Unwrap(t.root),
                               Unwrap(dfs_top(t).parent_seq)).sequence),
                node_at(Unwrap(t.root), dfs_top(t).node).branch_length, rs)
    ELSE None

\* the rest of the turn for the node at path, its sequence assigned: the
\* ancestral assert, then the tip is recorded or the children are pushed
dfs_visit(t, h, path, curr_node, has_parent) ==
    IF ~has_parent /\ ~IsSome(curr_node.sequence)
    THEN << Panic(t, "Can't evolve a tree with no ancestral sequence"), h >>
    ELSE IF Len(curr_node.children) = 0 THEN
        IF ~IsSome(curr_node.id)
        THEN << Panic(t, "only named tip nodes are supported"), h >>
        ELSE << t, insert(h, Unwrap(curr_node.id), Unwrap(curr_node.sequence)) >>
    ELSE << [t EXCEPT !.loc.estack = dfs_push(@, path, curr_node.children)],
            h >>

\* a turn where mutate writes its result into the parent's sequence too
dfs_assign_inplace(t, h, path, mutated) ==
    dfs_visit([t EXCEPT !.root = Some(with_sequence(
                            with_sequence(Unwrap(@),
                                          SubSeq(path, 1, Len(path) - 1),
                                          mutated),
                            path, mutated))],
              h, path,
              [node_at(Unwrap(t.root), path) EXCEPT !.sequence = mutated],
              TRUE)

\* the turn once mutate has returned: the sequence is assigned
dfs_assign(t, h, path, mutated) ==
    dfs_visit([t EXCEPT !.root = Some(with_sequence(Unwrap(@), path, mutated))],
              h, path,
              [node_at(Unwrap(t.root), path) EXCEPT !.sequence = mutated],
              TRUE)

\* the tree with the top of its stack popped
dfs_pop(t) ==
    [t EXCEPT !.loc.estack = SubSeq(@, 1, Len(@) - 1)]

\* one turn of the loop of dfs_evolve, on the draws rs: the tree and the
\* map after it
dfs_step(t, h, rs) ==
    IF IsSome(dfs_top(t).parent_seq) THEN
        CHOOSE r \in
           {IF IsNone(mutated) THEN << Panic(t, "mutate"), h >>
            ELSE dfs_assign(dfs_pop(t), h, dfs_top(t).node, mutated) :
              mutated \in {dfs_mutated(t, rs)}} : TRUE
    ELSE dfs_visit(dfs_pop(t), h, dfs_top(t).node,
                   node_at(Unwrap(t.root), dfs_top(t).node), FALSE)

\* dfs_evolve returns
dfs_exit(t) == [t EXCEPT !.call = "idle", !.loc = NoLocals]

\* the draws of draws for the next turn of the loop: the root takes none
dfs_next_draws(t, draws) ==
    IF IsSome(dfs_top(t).parent_seq) THEN draws[dfs_top(t).node] ELSE << >>

\* the while loop of dfs_evolve from r, the tree and the map
RECURSIVE dfs_loop(_, _)
dfs_loop(r, draws) ==
    IF dfs_looping(r[1])
    THEN dfs_loop(dfs_step(r[1], r[2], dfs_next_draws(r[1], draws)), draws)
    ELSE r

\* the return of dfs_evolve, where the loop ended without a panic
dfs_finish(r) == IF r[1].call = "evolve" THEN << dfs_exit(r[1]), r[2] >> ELSE r

\* dfs_evolve, from entry to return or panic, on the draws draws[path] for
\* the mutate of the node at path: the tree and the map after it
dfs_evolve(t, h, draws) ==
    IF dfs_enter(t).call = "panic" THEN << dfs_enter(t), h >>
    ELSE dfs_finish(dfs_loop(<< dfs_enter(t), h >>, draws))

(***************************************************************************)
(* Inputs.                                                                 *)
(***************************************************************************)
\* the characters of the tree strings drawn without any shape
Alphabet == {"(", ")", ",", ":", ";", "A", "1", "-", " "}

AnyStrings == UNION {[1..n -> Alphabet] : n \in 0..MaxLen}

\* a written tree: a node is its label, its length text (empty: none is
\* written) and its children
Written(label, len, kids) == [label |-> label, len |-> len, kids |-> kids]

RECURSIVE WrittenTrees(_, _, _)
RECURSIVE WrittenForests(_, _, _)
\* the written trees of exactly n nodes
WrittenTrees(n, labels, lens) ==
    {Written(a, b, f) :
        a \in labels, b \in lens, f \in WrittenForests(n - 1, labels, lens)}

\* the sequences of written trees of m nodes in all
WrittenForests(m, labels, lens) ==
    IF m = 0 THEN {<< >>}
    ELSE UNION {{<< w >> \o f : w \in WrittenTrees(j, labels, lens),
                                f \in WrittenForests(m - j, labels, lens)} :
                j \in 1..m}

RECURSIVE NodeText(_)
RECURSIVE ForestText(_)
\* the Newick text of a written node
NodeText(w) ==
    (IF Len(w.kids) > 0 THEN <<"(">> \o ForestText(w.kids) \o <<")">>
     ELSE << >>)
    \o w.label
    \o (IF Len(w.len) > 0 THEN <<":">> \o w.len ELSE << >>)

ForestText(f) ==
    IF Len(f) = 1 THEN NodeText(f[1])
    ELSE NodeText(f[1]) \o <<",">> \o ForestText(Tail(f))

\* the Newick string of a written tree
Newick(w) == NodeText(w) \o <<";">>

\* length texts of str::parse's grammar that are no numerals
WordLens == {<<"N", "a", "N">>, <<"i", "n", "f">>, <<"-", "i", "n", "f">>}

\* the tree strings the reader is run on
ReaderStrings ==
    AnyStrings
    \cup {Newick(Written(<<"A">>, b, << >>)) : b \in WordLens}
    \cup {Newick(Written(<< >>, << >>, << Written(<<"A">>, b, << >>) >>)) :
            b \in WordLens}
    \cup {Newick(w) : w \in UNION {WrittenTrees(n, {<< >>, <<"A">>},
                                                {<< >>, <<"1">>}) :
                                   n \in 1..MaxNodes}}

(***************************************************************************)
(* State.                                                                  *)
(***************************************************************************)
\* no call of the model on its own
NoCall ==
    [op |-> "none", s |-> from_vec(<< >>), v |-> Num(0), l |-> 0,
     rs |-> << >>, ret |-> None]

VARIABLES
    tree_file,      \* the lines of the tree file
    part_file,      \* the lines of the partition file
    pc,             \* where main is
    fail,           \* the message main ended with, "" while it has not
    trees,          \* tree_vec
    task,           \* per tree, its task of the parallel loop under way
    mutated_seqs,   \* per tree, the map its dfs_evolve fills
    merge,          \* the for loop under way in main: the index i of the
                    \* map under assembly, and the entries still to take
                    \* of the map iterated
    assembled_seqs, \* id -> assembled string
    out,            \* the lines written to the output file
    calls,          \* the methods called so far on a tree called directly
    lab             \* a call of HKY::mutate or HKY::random on its own: its
                    \* arguments and what it returned

vars == << tree_file, part_file, pc, fail, trees, task,
           mutated_seqs, merge, assembled_seqs, out, calls, lab >>

\* the variables of main's pipeline, untouched while one tree's methods
\* are called directly
pipe == << tree_file, part_file, pc, fail, task, merge,
           assembled_seqs, out, lab >>

(***************************************************************************)
(* One tree, its methods called directly (pc = "api"): tree_file[1] is     *)
(* the string the tree was made from.                                      *)
(***************************************************************************)
InitTree(strings, parts) ==
    /\ tree_file \in {<< s >> : s \in strings}
    /\ part_file = << >>
    /\ pc = "api"
    /\ fail = ""
    /\ \E p \in parts : trees = << NTree_new(p, tree_file[1]) >>
    /\ task = << >>
    /\ mutated_seqs = << {} >>
    /\ merge = [i |-> 0, rest |-> {}]
    /\ assembled_seqs = {}
    /\ out = << >>
    /\ calls = 0
    /\ lab = NoCall

InitBuild == InitTree(ReaderStrings, {1})

\* build_from_newick is called
BuildStart ==
    /\ pc = "api" /\ trees[1].call = "idle" /\ calls < MaxCalls
    /\ trees' = [trees EXCEPT ![1] = build_enter(@)]
    /\ calls' = calls + 1
    /\ UNCHANGED << pipe, mutated_seqs >>

\* one character is scanned
BuildScan ==
    /\ pc = "api" /\ build_looping(trees[1])
    /\ trees' = [trees EXCEPT ![1] = build_scan(@)]
    /\ UNCHANGED << pipe, mutated_seqs, calls >>

\* the scan is over: the balance check and the return
BuildReturn ==
    /\ pc = "api" /\ trees[1].call = "build" /\ ~build_looping(trees[1])
    /\ trees' = [trees EXCEPT ![1] = build_exit(@)]
    /\ UNCHANGED << pipe, mutated_seqs, calls >>

NextBuild == BuildStart \/ BuildScan \/ BuildReturn

\* the reader alone, on every string of ReaderStrings
SpecBuild == InitBuild /\ [][NextBuild]_vars

(***************************************************************************)
(* One tree through build_from_newick, create_ancestral and dfs_evolve,    *)
(* called in any order.                                                    *)
(***************************************************************************)
\* the draws of the uniform generators, in thousandths
Draws == {100, 600}

\* the draws one call takes from its generator for n symbols: two values
\* of Draws in turn, from either
TaskDraws(n) ==
    {[i \in 1..n |-> IF i % 2 = 1 THEN d[1] ELSE d[2]] :
        d \in {e \in Draws \X Draws : e[1] # e[2]}}

\* the tree strings the evolution is run on: the trees of up to MaxEvNodes
\* nodes, their nodes unnamed or named A or B with no lengths, or named A
\* or B with length 1, four strings with a blank label, an unclosed group
\* or an empty length, and one with a tip of length NaN
EvolveStrings ==
    {Newick(w) : w \in UNION {WrittenTrees(n, {<< >>, <<"A">>, <<"B">>},
                                           {<< >>})
                              \cup WrittenTrees(n, {<<"A">>, <<"B">>},
                                                {<<"1">>}) :
                              n \in 1..MaxEvNodes}}
    \cup {<<"(", " ", ")", ";">>, <<"(", "A", ",", " ", ")", ";">>,
          <<"(", "A", ";">>, <<"A", ":", ";">>,
          <<"(", "A", ":", "N", "a", "N", ")", ";">>}

InitEvolve == InitTree(EvolveStrings, 0..MaxPart)

\* create_ancestral is called
CreateAncestral ==
    /\ pc = "api" /\ trees[1].call = "idle" /\ calls < MaxCalls
    /\ \E rs \in TaskDraws(trees[1].partition) :
          trees' = [trees EXCEPT ![1] = create_ancestral(@, rs)]
    /\ calls' = calls + 1
    /\ UNCHANGED << pipe, mutated_seqs >>

\* dfs_evolve is called with the map mutated_seqs[1]
EvolveStart ==
    /\ pc = "api" /\ trees[1].call = "idle" /\ calls < MaxCalls
    /\ trees' = [trees EXCEPT ![1] = dfs_enter(@)]
    /\ calls' = calls + 1
    /\ UNCHANGED << pipe, mutated_seqs >>

\* one node is popped
EvolveStep ==
    /\ pc = "api" /\ dfs_looping(trees[1])
    /\ \E rs \in TaskDraws(dfs_draws(trees[1])) :
          LET r == dfs_step(trees[1], mutated_seqs[1], rs)
          IN  /\ trees' = [trees EXCEPT ![1] = r[1]]
              /\ mutated_seqs' = [mutated_seqs EXCEPT ![1] = r[2]]
    /\ UNCHANGED << pipe, calls >>

\* the stack is empty: dfs_evolve returns
EvolveReturn ==
    /\ pc = "api" /\ trees[1].call = "evolve" /\ ~dfs_looping(trees[1])
    /\ trees' = [trees EXCEPT ![1] = dfs_exit(@)]
    /\ UNCHANGED << pipe, mutated_seqs, calls >>

NextEvolve ==
    \/ BuildStart \/ BuildScan \/ BuildReturn
    \/ CreateAncestral
    \/ EvolveStart \/ EvolveStep \/ EvolveReturn

\* one tree, its three methods called in any order
SpecEvolve == InitEvolve /\ [][NextEvolve]_vars

\* the same, where the thread that is inside dfs_evolve keeps running: the
\* loop takes its next turn and the method returns once the loop is left
SpecEvolveLive ==
    SpecEvolve /\ WF_vars(EvolveStep) /\ WF_vars(EvolveReturn)

(***************************************************************************)
(* main: the loader, the three parallel loops, the assembly and the        *)
(* writing.  One task of a parallel loop runs one method on one tree from  *)
(* entry to return or panic; the tasks of a loop run in any order, and a   *)
(* panic of a task ends main once the loop is left.                        *)
(***************************************************************************)
\* the lines of the tree file
TreeLines ==
    {<<"A", ";">>, <<"(", "A", ",", "B", ")", ";">>,
     <<"(", "A", ",", " ", ")", ";">>, <<"(", "A", ";">>,
     <<"A">>, <<"A", ";", " ">>}

\* the lines of the partition file
PartLines == {<<"1">>, <<"2">>, <<"x">>}

Min(a, b) == IF a < b THEN a ELSE b

\* the turn of the loader's loop without the assert on the last character
load_line_unchecked(tree_line, part_line) ==
    IF IsNone(ParseUsize(part_line))
    THEN [err |-> "Parse error: Could not parse partition", tree |-> None]
    ELSE [err |-> "",
          tree |-> Some(NTree_new(Unwrap(ParseUsize(part_line)),
                                  Trim(tree_line)))]

\* one turn of the loader's loop: the message it ends main with, or the
\* tree it pushes
load_line(tree_line, part_line) ==
    IF IsNone(ParseUsize(part_line))
    THEN [err |-> "Parse error: Could not parse partition", tree |-> None]
    ELSE IF ~EndsWith(Trim(tree_line), ";")
    THEN [err |-> "Incorrect Newick tree format, missing trailing ';'",
          tree |-> None]
    ELSE [err |-> "",
          tree |-> Some(NTree_new(Unwrap(ParseUsize(part_line)),
                                  Trim(tree_line)))]

\* the assembly with the new part put before the old
merge_entry_front(a, k, v) ==
    IF k \in keys(a) THEN insert(a, k, to_string(v) \o get(a, k))
    ELSE insert(a, k, to_string(v))

\* the body of the assembly loop for the entry (k, v)
merge_entry(a, k, v) ==
    IF k \in keys(a) THEN insert(a, k, get(a, k) \o to_string(v))
    ELSE insert(a, k, to_string(v))

\* the line written for the entry (k, v)
writeln(k, v) == k \o <<" ">> \o v

InitMain ==
    /\ tree_file \in UNION {[1..n -> TreeLines] : n \in 0..MaxLines}
    /\ part_file \in UNION {[1..n -> PartLines] : n \in 0..MaxLines}
    /\ pc = "load"
    /\ fail = ""
    /\ trees = << >>
    /\ task = << >>
    /\ mutated_seqs = << >>
    /\ merge = [i |-> 0, rest |-> {}]
    /\ assembled_seqs = {}
    /\ out = << >>
    /\ calls = 0
    /\ lab = NoCall

\* the tasks of a parallel loop over tree_vec, none begun
Pending == [i \in 1..Len(trees) |-> "pending"]

\* how the task of a tree ended
Ran(t) == IF t.call = "panic" THEN "panicked" ELSE "done"

\* a loop left as soon as no task is still to run
Joined_any == \A i \in 1..Len(task) : task[i] # "pending"

Joined == \A i \in 1..Len(task) : task[i] = "done"

\* the loader takes the next pair of lines
LoadLine ==
    /\ pc = "load"
    /\ Len(trees) < Min(Len(tree_file), Len(part_file))
    /\ LET r == load_line(tree_file[Len(trees) + 1], part_file[Len(trees) + 1])
       IN  IF r.err # ""
           THEN pc' = "abort" /\ fail' = r.err /\ trees' = trees
           ELSE pc' = pc /\ fail' = fail /\ trees' = Append(trees, Unwrap(r.tree))
    /\ UNCHANGED << tree_file, part_file, task, mutated_seqs, merge,
                    assembled_seqs, out, calls, lab >>

\* one of the files has no more lines: the loader's parallel loop begins
LoadDone ==
    /\ pc = "load"
    /\ Len(trees) = Min(Len(tree_file), Len(part_file))
    /\ pc' = "build"
    /\ task' = Pending
    /\ UNCHANGED << tree_file, part_file, fail, trees, mutated_seqs, merge,
                    assembled_seqs, out, calls, lab >>

\* build_from_newick on tree i
BuildTask(i) ==
    /\ pc = "build" /\ task[i] = "pending"
    /\ LET u == build_from_newick(trees[i])
       IN  /\ trees' = [trees EXCEPT ![i] = u]
           /\ task' = [task EXCEPT ![i] = Ran(u)]
    /\ UNCHANGED << tree_file, part_file, pc, fail, mutated_seqs, merge,
                    assembled_seqs, out, calls, lab >>

\* the loader returns tree_vec; the loop of create_ancestral begins
BuildJoin ==
    /\ pc = "build" /\ Joined
    /\ pc' = "ancestral"
    /\ task' = Pending
    /\ UNCHANGED << tree_file, part_file, fail, trees, mutated_seqs, merge,
                    assembled_seqs, out, calls, lab >>

\* create_ancestral on tree i
AncestralTask(i) ==
    /\ pc = "ancestral" /\ task[i] = "pending"
    /\ \E rs \in TaskDraws(trees[i].partition) :
          LET u == create_ancestral(trees[i], rs)
          IN  /\ trees' = [trees EXCEPT ![i] = u]
              /\ task' = [task EXCEPT ![i] = Ran(u)]
    /\ UNCHANGED << tree_file, part_file, pc, fail, mutated_seqs, merge,
                    assembled_seqs, out, calls, lab >>

\* mutated_seqs is made, one empty map for each tree; the loop of
\* dfs_evolve begins
AncestralJoin ==
    /\ pc = "ancestral" /\ Joined
    /\ pc' = "evolve"
    /\ mutated_seqs' = [i \in 1..Len(trees) |-> {}]
    /\ task' = Pending
    /\ UNCHANGED << tree_file, part_file, fail, trees, merge,
                    assembled_seqs, out, calls, lab >>

\* the draws a dfs_evolve on t may take: for each node but the root, one
\* for each symbol
EvolveDraws(t) ==
    {[q \in PathsOf(Unwrap(t.root)) \ {<< >>} |-> rs] :
        rs \in TaskDraws(t.partition)}

\* dfs_evolve on tree i with the map mutated_seqs[i]
EvolveTask(i) ==
    /\ pc = "evolve" /\ task[i] = "pending"
    /\ \E draws \in EvolveDraws(trees[i]) :
          LET r == dfs_evolve(trees[i], mutated_seqs[i], draws)
          IN  /\ trees' = [trees EXCEPT ![i] = r[1]]
              /\ mutated_seqs' = [mutated_seqs EXCEPT ![i] = r[2]]
              /\ task' = [task EXCEPT ![i] = Ran(r[1])]
    /\ UNCHANGED << tree_file, part_file, pc, fail, merge,
                    assembled_seqs, out, calls, lab >>

\* tree_vec is cleared; the assembly begins
EvolveJoin ==
    /\ pc = "evolve" /\ Joined
    /\ pc' = "merge"
    /\ trees' = << >>
    /\ task' = << >>
    /\ merge' = [i |-> 0, rest |-> {}]
    /\ UNCHANGED << tree_file, part_file, fail, mutated_seqs,
                    assembled_seqs, out, calls, lab >>

\* a parallel loop is left with the panic of one of its tasks
TaskPanic ==
    /\ pc \in {"build", "ancestral", "evolve"}
    /\ \E i \in 1..Len(task) :
          /\ task[i] = "panicked"
          /\ fail' = trees[i].err
    /\ pc' = "abort"
    /\ UNCHANGED << tree_file, part_file, trees, task, mutated_seqs, merge,
                    assembled_seqs, out, calls, lab >>

\* the outer loop of the assembly takes the next map
MergeMap ==
    /\ pc = "merge" /\ merge.rest = {} /\ merge.i < Len(mutated_seqs)
    /\ merge' = [i |-> merge.i + 1, rest |-> mutated_seqs[merge.i + 1]]
    /\ UNCHANGED << tree_file, part_file, pc, fail, trees, task,
                    mutated_seqs, assembled_seqs, out, calls, lab >>

\* the inner loop takes an entry of the map, in the map's order
MergeEntry ==
    /\ pc = "merge"
    /\ \E e \in merge.rest :
          /\ assembled_seqs' = merge_entry(assembled_seqs, e[1], e[2])
          /\ merge' = [merge EXCEPT !.rest = @ \ {e}]
    /\ UNCHANGED << tree_file, part_file, pc, fail, trees, task,
                    mutated_seqs, out, calls, lab >>

\* the assembly is over: the output file is opened
MergeDone ==
    /\ pc = "merge" /\ merge.rest = {} /\ merge.i = Len(mutated_seqs)
    /\ pc' = "write"
    /\ merge' = [merge EXCEPT !.rest = assembled_seqs]
    /\ UNCHANGED << tree_file, part_file, fail, trees, task,
                    mutated_seqs, assembled_seqs, out, calls, lab >>

\* a line is written for an entry of assembled_seqs, in the map's order
WriteLine ==
    /\ pc = "write"
    /\ \E e \in merge.rest :
          /\ out' = Append(out, writeln(e[1], e[2]))
          /\ merge' = [merge EXCEPT !.rest = @ \ {e}]
    /\ UNCHANGED << tree_file, part_file, pc, fail, trees, task,
                    mutated_seqs, assembled_seqs, calls, lab >>

\* main returns
WriteDone ==
    /\ pc = "write" /\ merge.rest = {}
    /\ pc' = "done"
    /\ UNCHANGED << tree_file, part_file, fail, trees, task, mutated_seqs,
                    merge, assembled_seqs, out, calls, lab >>

NextMain ==
    \/ LoadLine \/ LoadDone
    \/ \E i \in 1..Len(task) : BuildTask(i)
    \/ BuildJoin
    \/ \E i \in 1..Len(task) : AncestralTask(i)
    \/ AncestralJoin
    \/ \E i \in 1..Len(task) : EvolveTask(i)
    \/ EvolveJoin
    \/ TaskPanic
    \/ MergeMap \/ MergeEntry \/ MergeDone
    \/ WriteLine \/ WriteDone

\* a run of main on the files tree_file and part_file
SpecMain == InitMain /\ [][NextMain]_vars

(***************************************************************************)
(* HKY::mutate and HKY::random called on their own (pc = "call"), on any   *)
(* sequence, branch length and draws.                                      *)
(***************************************************************************)
\* the symbols of the sequences handed to mutate: the four bases and N
CallSymbols == {bases[1], bases[2], bases[3], bases[4], 78}

\* the branch lengths handed to mutate: 0, 0.1, 1, -1 and the values of
\* f64 that are no number
Lengths ==
    {Num(0), Num(Unit \div 10), Num(Unit), Num(-Unit), NaN, Inf(1), Inf(-1)}

\* the draws of the generator of 0.0..1.0, in thousandths
CallDraws == Draws \cup {999}

InitMutate ==
    /\ tree_file = << >>
    /\ part_file = << >>
    /\ pc = "call"
    /\ fail = ""
    /\ trees = << >>
    /\ task = << >>
    /\ mutated_seqs = << >>
    /\ merge = [i |-> 0, rest |-> {}]
    /\ assembled_seqs = {}
    /\ out = << >>
    /\ calls = 0
    /\ \E n \in 0..MaxSeq : \E x \in [1..n -> CallSymbols] : \E v \in Lengths :
          lab = [NoCall EXCEPT !.op = "new", !.s = from_vec(x), !.v = v]

\* m.mutate(&s, v)
Mutate ==
    /\ pc = "call" /\ lab.op = "new"
    /\ \E rs \in [1..Len(lab.s.nucleotides) -> CallDraws] :
          lab' = [lab EXCEPT !.op = "mutate", !.rs = rs,
                             !.ret = mutate(lab.s, lab.v, rs)]
    /\ UNCHANGED << tree_file, part_file, pc, fail, trees, task,
                    mutated_seqs, merge, assembled_seqs, out, calls >>

\* m.random(l), which takes no sequence: called where none was made
Random ==
    /\ pc = "call" /\ lab.op = "new"
    /\ lab.s = NoCall.s /\ lab.v = NoCall.v
    /\ \E l \in 0..MaxSeq : \E rs \in [1..l -> CallDraws] :
          lab' = [lab EXCEPT !.op = "random", !.l = l, !.rs = rs,
                             !.ret = random(l, rs)]
    /\ UNCHANGED << tree_file, part_file, pc, fail, trees, task,
                    mutated_seqs, merge, assembled_seqs, out, calls >>

NextMutate == Mutate \/ Random

\* one call of the model
SpecMutate == InitMutate /\ [][NextMutate]_vars

\* every way a Sequence is made: one tree's methods, main, and the model
\* called on its own
SpecSequences ==
    (InitEvolve \/ InitMain \/ InitMutate)
       /\ [][NextEvolve \/ NextMain \/ NextMutate]_vars

(***************************************************************************)
(* The reader's claims.                                                    *)
(***************************************************************************)
Special == {"(", ")", ",", ":", ";"}

At(s, i) == IF i >= 1 /\ i <= Len(s) THEN s[i] ELSE ""

\* the first index from i on that holds a special character, or Len(s) + 1
RECURSIVE RunEnd(_, _)
RunEnd(s, i) ==
    IF i > Len(s) \/ s[i] \in Special THEN i ELSE RunEnd(s, i + 1)

\* a decimal numeral: an optional sign, then digits
Numeral(x) ==
    LET body == IF Len(x) > 0 /\ x[1] \in {"+", "-"} THEN Tail(x) ELSE x
    IN  Len(body) > 0 /\ \A i \in 1..Len(body) : body[i] \in Digits

NumeralValue(x) ==
    IF x[1] = "-" THEN Num(-(DecVal(Tail(x)) * Unit))
    ELSE IF x[1] = "+" THEN Num(DecVal(Tail(x)) * Unit)
    ELSE Num(DecVal(x) * Unit)

\* A recursive Newick reader:
\*   node ::= [ "(" node { "," node } ")" ] label [ ":" numeral ]
\* RefNode reads the node that starts at s[i]; next is the index after it.
RECURSIVE RefNode(_, _)
RECURSIVE RefForest(_, _)
RefNode(s, i) ==
    LET kids == IF At(s, i) = "(" THEN RefForest(s, i + 1)
                ELSE [ok |-> TRUE, nodes |-> << >>, next |-> i]
        j == kids.next
        k == RunEnd(s, j)
        label == Trim(SubSeq(s, j, k - 1))
        hasLen == At(s, k) = ":"
        m == IF hasLen THEN RunEnd(s, k + 1) ELSE k
        lenText == Trim(SubSeq(s, k + 1, m - 1))
    IN  IF ~kids.ok \/ (hasLen /\ ~Numeral(lenText))
        THEN [ok |-> FALSE, node |-> new_empty, next |-> i]
        ELSE [ok |-> TRUE,
              node |-> [children |-> kids.nodes,
                        id |-> IF Len(label) = 0 THEN None ELSE Some(label),
                        branch_length |-> IF hasLen THEN NumeralValue(lenText)
                                          ELSE Num(0),
                        sequence |-> None],
              next |-> m]

RefForest(s, i) ==
    LET first == RefNode(s, i)
        rest == RefForest(s, first.next + 1)
    IN  IF ~first.ok THEN [ok |-> FALSE, nodes |-> << >>, next |-> i]
        ELSE IF At(s, first.next) = ","
        THEN [ok |-> rest.ok, nodes |-> << first.node >> \o rest.nodes,
              next |-> rest.next]
        ELSE IF At(s, first.next) = ")"
        THEN [ok |-> TRUE, nodes |-> << first.node >>, next |-> first.next + 1]
        ELSE [ok |-> FALSE, nodes |-> << >>, next |-> i]

\* the string is one node followed by ';' and nothing else
WellFormed(s) ==
    LET r == RefNode(s, 1) IN r.ok /\ r.next = Len(s) /\ At(s, r.next) = ";"

RefTree(s) == RefNode(s, 1).node

\* C1: on a well-formed Newick string build does not fail, and the tree it
\* builds is the tree the recursive reader gives for the string: the same
\* nesting, child order, ids and branch lengths (so the label and length
\* written after a ')' are those of the node whose group it closes).
C1_BuildMatchesReference ==
    \A i \in 1..Len(trees) :
        WellFormed(tree_file[i]) =>
            /\ trees[i].err \in {"", "Tree already built!"}
            /\ IsSome(trees[i].root) =>
                  Unwrap(trees[i].root) = RefTree(tree_file[i])

\* a built tree whose root has a child with children of its own, the
\* child's id and length written after its ')'
C1_Witness ==
    /\ WellFormed(tree_file[1])
    /\ IsSome(trees[1].root)
    /\ \E i \in 1..Len(Unwrap(trees[1].root).children) :
          LET c == Unwrap(trees[1].root).children[i]
          IN  /\ Len(c.children) > 0
              /\ c.id = Some(<<"A">>)
              /\ c.branch_length = Num(Unit)
              /\ c.children[1].id = None
              /\ c.children[1].branch_length = Num(0)

\* the part of s the scan reads: up to its first ';', all of it without one
RECURSIVE Scanned(_)
Scanned(s) ==
    IF Len(s) = 0 THEN << >>
    ELSE IF Head(s) = ";" THEN << ";" >>
    ELSE << Head(s) >> \o Scanned(Tail(s))

\* the nesting depth after s, -1 once a ')' closes nothing
RECURSIVE DepthAfter(_, _)
DepthAfter(s, d) ==
    IF Len(s) = 0 \/ d < 0 THEN d
    ELSE IF Head(s) = "(" THEN DepthAfter(Tail(s), d + 1)
    ELSE IF Head(s) = ")" THEN DepthAfter(Tail(s), d - 1)
    ELSE DepthAfter(Tail(s), d)

Balanced(s) == DepthAfter(Scanned(s), 0) = 0

\* C2: a ',' or ')' scanned with an empty parent stack fails at once; a scan
\* that ends with a non-empty parent stack fails at the end-of-scan check;
\* build fails on every input whose parentheses are unbalanced up to the
\* first ';'; and root is not set by a failing build.
C2_UnbalancedFails ==
    [][LET t == trees[1]
           u == trees'[1]
       IN  /\ (build_looping(t) /\ Unwrap(c_o(t)) \in {",", ")"}
                 /\ Len(t.loc.stack) = 0)
              => (u.call = "panic" /\ IsNone(u.root)
                    /\ u.err = "Empty tree building stack")
           /\ (t.call = "build" /\ ~build_looping(t) /\ Len(t.loc.stack) > 0)
              => (u.call = "panic" /\ IsNone(u.root)
                    /\ u.err = "Unbalanced parens on Newick tree")
           /\ (t.call = "build" /\ u.call # "build"
                 /\ ~Balanced(tree_file[1]))
              => (u.call = "panic" /\ IsNone(u.root))
           /\ (t.call = "panic" => u = t)]_vars

\* the scan of a string with an unclosed '(' and a ';' has failed at the
\* end-of-scan check
C2_Witness ==
    /\ trees[1].err = "Unbalanced parens on Newick tree"
    /\ IsNone(trees[1].root)
    /\ \E i \in 1..Len(tree_file[1]) : tree_file[1][i] = ";"
    /\ \E i \in 1..Len(tree_file[1]) : tree_file[1][i] = ","

\* C3: build on a tree whose root is set fails and leaves the root as it
\* is; a build that returns has set root and cleared build_str; root, once
\* set, is not set again.
C3_BuildOnce ==
    [][LET t == trees[1]
           u == trees'[1]
       IN  /\ (t.call = "idle" /\ u.call \in {"build", "panic"}
                 /\ u.err \notin {"Can't create ancestral for an empty tree",
                                  "Can't evolve an empty tree"}
                 /\ IsSome(t.root))
              => (u.call = "panic" /\ u.err = "Tree already built!"
                    /\ u.root = t.root)
           /\ (t.call = "build" /\ u.call = "idle")
              => (IsNone(t.root) /\ IsSome(u.root) /\ u.build_str = << >>)
           /\ (t.call # "build" /\ IsNone(t.root)) => IsNone(u.root)
           /\ (t.call = "build" /\ IsSome(t.root)) => FALSE]_vars

\* build was called on a built tree and failed
C3_Witness ==
    /\ trees[1].err = "Tree already built!"
    /\ IsSome(trees[1].root)
    /\ Len(Unwrap(trees[1].root).children) > 0
    /\ trees[1].build_str = << >>

\* C5: build fails whenever the trimmed buffer finalized under the
\* reading-branch-length selector is no numeral, the empty text included,
\* and root is not set.
C5_NonNumericLengthFails ==
    [][LET t == trees[1]
           u == trees'[1]
       IN  (/\ build_looping(t)
            /\ Unwrap(c_o(t)) \in {",", ")", ":", ";"}
            /\ t.loc.read_flag = 2
            /\ ~Numeral(Trim(t.loc.buffer)))
           => (u.call = "panic" /\ IsNone(u.root))]_vars

RECURSIVE NodeCount(_)
RECURSIVE NodeCountAll(_)
NodeCount(n) == 1 + NodeCountAll(n.children)

NodeCountAll(ns) ==
    IF Len(ns) = 0 THEN 0 ELSE NodeCount(Head(ns)) + NodeCountAll(Tail(ns))

\* the number of ',' and ')' in s: the nodes other than the root it writes
RECURSIVE Closings(_)
Closings(s) ==
    IF Len(s) = 0 THEN 0
    ELSE (IF Head(s) \in {",", ")"} THEN 1 ELSE 0) + Closings(Tail(s))

\* C6: after a successful build, size is the number of nodes of the built
\* tree, the root included: one more than the nodes other than the root
\* that the string writes.
C6_SizeCountsNodes ==
    \A i \in 1..Len(trees) :
        IsSome(trees[i].root) =>
            /\ trees[i].size = NodeCount(Unwrap(trees[i].root))
            /\ trees[i].size = Closings(Scanned(tree_file[i])) + 1

\* a built tree of four nodes on three levels
C6_Witness ==
    /\ IsSome(trees[1].root)
    /\ trees[1].size = 4
    /\ \E i \in 1..Len(Unwrap(trees[1].root).children) :
          Len(Unwrap(trees[1].root).children[i].children) > 0

(***************************************************************************)
(* The evolution's claims.                                                 *)
(***************************************************************************)
\* the paths of the tips
Tips(n) == {q \in PathsOf(n) : Len(node_at(n, q).children) = 0}

AllTipsNamed(n) == \A q \in Tips(n) : IsSome(node_at(n, q).id)

TipIds(n) == {Unwrap(node_at(n, q).id) : q \in {x \in Tips(n) : IsSome(node_at(n, x).id)}}

DistinctTipNames(n) ==
    \A q1, q2 \in Tips(n) : node_at(n, q1).id = node_at(n, q2).id => q1 = q2

\* the step is a return of dfs_evolve
EvolveReturns == trees[1].call = "evolve" /\ trees'[1].call = "idle"

\* C7, as claimed: when dfs_evolve returns on a tree with k tips, all
\* named, the map has exactly k entries, each sequence of the partition's
\* length.
C7_AsClaimed ==
    [][(EvolveReturns /\ AllTipsNamed(Unwrap(trees[1].root))) =>
          /\ Cardinality(mutated_seqs'[1]) =
                Cardinality(Tips(Unwrap(trees[1].root)))
          /\ \A e \in mutated_seqs'[1] :
                Len(e[2].nucleotides) = trees[1].partition]_vars

\* C7, amended: when dfs_evolve returns, the map has one entry for each
\* distinct tip name (exactly k entries when the k tips are named pairwise
\* differently), each sequence of the partition's length.
C7_OneEntryPerTipName ==
    [][EvolveReturns =>
          LET root == Unwrap(trees[1].root)
              h == mutated_seqs'[1]
          IN  /\ AllTipsNamed(root)
              /\ keys(h) = TipIds(root)
              /\ Cardinality(h) = Cardinality(TipIds(root))
              /\ DistinctTipNames(root) =>
                    Cardinality(h) = Cardinality(Tips(root))
              /\ \A e \in h : /\ Len(e[2].nucleotides) = trees[1].partition
                              /\ e[2].size = trees[1].partition]_vars

\* dfs_evolve has returned on a tree with two tips named A and B
C7_Witness ==
    /\ trees[1].call = "idle"
    /\ IsSome(trees[1].root)
    /\ Cardinality(Tips(Unwrap(trees[1].root))) = 2
    /\ DistinctTipNames(Unwrap(trees[1].root))
    /\ keys(mutated_seqs[1]) = {<<"A">>, <<"B">>}
    /\ trees[1].partition = 1
    /\ \A e \in mutated_seqs[1] : Len(e[2].nucleotides) = 1

\* C8: create_ancestral fails when root is absent; dfs_evolve fails when
\* root is absent, and when the root has no sequence; a create_ancestral
\* that returns has set the root's sequence to one of length partition.
C8_CallOrder ==
    [][LET t == trees[1]
           u == trees'[1]
       IN  /\ (CreateAncestral /\ IsNone(t.root))
              => (/\ u.call = "panic"
                  /\ u.err = "Can't create ancestral for an empty tree"
                  /\ IsNone(u.root))
           /\ (EvolveStart /\ IsNone(t.root))
              => (/\ u.call = "panic"
                  /\ u.err = "Can't evolve an empty tree"
                  /\ mutated_seqs' = mutated_seqs)
           /\ (EvolveStep /\ IsNone(Unwrap(t.root).sequence))
              => (/\ u.call = "panic"
                  /\ u.err = "Can't evolve a tree with no ancestral sequence"
                  /\ mutated_seqs' = mutated_seqs)
           /\ (CreateAncestral /\ u.call # "panic")
              => (/\ IsSome(t.root)
                  /\ IsSome(Unwrap(u.root).sequence)
                  /\ Len(Unwrap(Unwrap(u.root).sequence).nucleotides)
                        = t.partition
                  /\ Unwrap(Unwrap(u.root).sequence).size = t.partition)
           /\ EvolveReturns => IsSome(Unwrap(u.root).sequence)]_vars

\* dfs_evolve was called on a built tree that create_ancestral never ran
\* on, and failed
C8_Witness ==
    /\ trees[1].err = "Can't evolve a tree with no ancestral sequence"
    /\ IsSome(trees[1].root)
    /\ Len(Unwrap(trees[1].root).children) > 0
    /\ mutated_seqs[1] = {}

\* C9: dfs_evolve fails when it pops a tip that has no id; a label that is
\* empty or only whitespace gives no id; and an entry is recorded only for
\* a popped tip, under the tip's id, with the tip's sequence.
C9_UnnamedTipFails ==
    [][LET t == trees[1]
           u == trees'[1]
           path == dfs_top(t).node
       IN  /\ (EvolveStep /\ Len(node_at(Unwrap(t.root), path).children) = 0
                 /\ IsNone(node_at(Unwrap(t.root), path).id))
              => (u.call = "panic" /\ mutated_seqs' = mutated_seqs)
           /\ (mutated_seqs' # mutated_seqs)
              => (/\ EvolveStep
                  /\ Len(node_at(Unwrap(t.root), path).children) = 0
                  /\ IsSome(node_at(Unwrap(t.root), path).id)
                  /\ mutated_seqs'[1] =
                        insert(mutated_seqs[1],
                               Unwrap(node_at(Unwrap(t.root), path).id),
                               Unwrap(node_at(Unwrap(u.root), path).sequence)))
           /\ IsSome(u.root) =>
                 \A q \in PathsOf(Unwrap(u.root)) :
                    IsSome(node_at(Unwrap(u.root), q).id) =>
                       LET id == Unwrap(node_at(Unwrap(u.root), q).id)
                       IN  Len(id) > 0 /\ Trim(id) = id]_vars

\* dfs_evolve failed on a tip whose label is a blank, the first tip it
\* popped
C9_Witness ==
    /\ trees[1].err = "only named tip nodes are supported"
    /\ tree_file[1] = <<"(", "A", ",", " ", ")", ";">>
    /\ keys(mutated_seqs[1]) = {}

(***************************************************************************)
(* The claims on main.                                                     *)
(***************************************************************************)
\* the number of pairs of lines the loader reads
Pairs == Min(Len(tree_file), Len(part_file))

\* the tree string of pair i: the line as the loader hands it to NTree::new
TreeString(i) == Trim(tree_file[i])

\* tree i is as NTree::new made it: no method has run on it
Unscanned(i) ==
    /\ trees[i].call = "idle"
    /\ trees[i].loc = NoLocals
    /\ IsNone(trees[i].root)
    /\ trees[i].size = 0
    /\ trees[i].build_str = TreeString(i)

MissingSemicolon == "Incorrect Newick tree format, missing trailing ';'"

\* C4: a tree string that does not end in ';' is rejected before any
\* scanning: no tree is ever made from such a string; while the files hold
\* such a string main never leaves the loader but to abort, and no build has
\* run on any tree; and when main aborts on the missing ';' the string at
\* fault is the one the loader had reached, and every tree made before it
\* is unscanned and has no root.
C4_NoSemicolonRejectedBeforeScan ==
    /\ \A i \in 1..Len(trees) : EndsWith(TreeString(i), ";")
    /\ (\E i \in 1..Pairs : ~EndsWith(TreeString(i), ";"))
          => (/\ pc \in {"load", "abort"}
              /\ \A i \in 1..Len(trees) : Unscanned(i))
    /\ (fail = MissingSemicolon)
          => (/\ pc = "abort"
              /\ Len(trees) < Pairs
              /\ ~EndsWith(TreeString(Len(trees) + 1), ";")
              /\ \A i \in 1..Len(trees) : Unscanned(i))

\* main aborted on a second line with no ';', the tree of the first line
\* made and never scanned
C4_Witness ==
    /\ pc = "abort"
    /\ fail = MissingSemicolon
    /\ Len(trees) = 1
    /\ tree_file[2] = <<"A">>
    /\ Unscanned(1)

\* the entries dfs_evolve records for the tree under n: each tip's id with
\* the tip's sequence
TipEntries(n) ==
    {<< Unwrap(node_at(n, q).id), Unwrap(node_at(n, q).sequence) >> :
        q \in Tips(n)}

\* the symbols of a sequence as characters
Symbols(seq) ==
    [j \in 1..Len(seq.nucleotides) |->
        CASE seq.nucleotides[j] = 65 -> "A" [] seq.nucleotides[j] = 71 -> "G"
          [] seq.nucleotides[j] = 67 -> "C" [] seq.nucleotides[j] = 84 -> "T"]

\* the sequences of taxon k from the maps of trees 1..i, in that order
RECURSIVE Concatenated(_, _)
Concatenated(k, i) ==
    IF i = 0 THEN << >>
    ELSE Concatenated(k, i - 1)
         \o (IF k \in keys(mutated_seqs[i])
             THEN Symbols(get(mutated_seqs[i], k)) ELSE << >>)

\* C10: whatever the order the parallel tasks ran in, the map of tree i
\* holds the tips of tree i once its dfs_evolve has returned, and after the
\* merge the string of every taxon is the concatenation, in the order of
\* the trees, of its sequences in the maps of the trees that hold it.
C10_MergeInTreeOrder ==
    /\ (pc = "evolve")
          => \A i \in 1..Len(trees) :
                task[i] = "done"
                   => mutated_seqs[i] = TipEntries(Unwrap(trees[i].root))
    /\ (pc \in {"write", "done"})
          => (/\ keys(assembled_seqs) =
                    UNION {keys(mutated_seqs[i]) : i \in 1..Len(mutated_seqs)}
              /\ \A e \in assembled_seqs :
                    e[2] = Concatenated(e[1], Len(mutated_seqs)))

\* two trees that both hold A, with partitions 2 and 1: the string of A is
\* the two symbols of tree 1, then the symbol of tree 2, which differs
C10_Witness ==
    /\ pc = "done"
    /\ Len(mutated_seqs) = 2
    /\ part_file = << <<"2">>, <<"1">> >>
    /\ <<"A">> \in keys(mutated_seqs[1]) \cap keys(mutated_seqs[2])
    /\ Symbols(get(mutated_seqs[1], <<"A">>)) = <<"A", "C">>
    /\ Symbols(get(mutated_seqs[2], <<"A">>)) = <<"C">>
    /\ get(assembled_seqs, <<"A">>) = <<"A", "C", "C">>

\* the partition length of pair j, as the loader parsed it
PartitionOf(j) == Unwrap(ParseUsize(part_file[j]))

\* the sum of the partition lengths of pairs 1..j
RECURSIVE Offset(_)
Offset(j) == IF j = 0 THEN 0 ELSE Offset(j - 1) + PartitionOf(j)

\* C11: in the final output the string of every taxon has the length of
\* the sum of the partition lengths of all trees, and the symbols tree j
\* gave for the taxon are at the offsets of partition j.
C11_PositionalCorrespondence ==
    (pc = "done")
       => \A e \in assembled_seqs :
             /\ Len(e[2]) = Offset(Len(mutated_seqs))
             /\ \A j \in 1..Len(mutated_seqs) :
                   e[1] \in keys(mutated_seqs[j])
                      => SubSeq(e[2], Offset(j - 1) + 1, Offset(j))
                            = Symbols(get(mutated_seqs[j], e[1]))

\* a parallel loop is left to go on only when no tree has failed
C13_NoPanic == \A i \in 1..Len(trees) : trees[i].call # "panic"

\* C13: once a build, a create_ancestral or a dfs_evolve has failed on a
\* tree, main goes nowhere but to its abort: the assembly is never entered,
\* nothing is assembled and nothing is written, whatever the other trees'
\* tasks did; and the assembly is entered only from trees that all
\* evolved.
C13_FailureAbortsRun ==
    [][/\ (~C13_NoPanic)
          => (/\ pc \in {"build", "ancestral", "evolve", "abort"}
              /\ pc' \in {pc, "abort"}
              /\ assembled_seqs' = {} /\ out' = << >>
              /\ merge' = [i |-> 0, rest |-> {}])
       /\ (pc' = "merge" /\ pc # "merge")
          => (/\ pc = "evolve"
              /\ \A i \in 1..Len(trees) :
                    /\ trees[i].call = "idle"
                    /\ mutated_seqs[i] = TipEntries(Unwrap(trees[i].root)))
       /\ (pc = "abort") => UNCHANGED vars]_vars

\* main aborted on the failure of the dfs_evolve of tree 2, the dfs_evolve
\* of tree 1 having returned with its tips recorded
C13_Witness ==
    /\ pc = "abort"
    /\ Len(trees) = 2
    /\ task = << "done", "panicked" >>
    /\ fail = "only named tip nodes are supported"
    /\ mutated_seqs[1] # {}
    /\ assembled_seqs = {} /\ out = << >>

\* C14: the dfs_evolve of tree i begins only after the create_ancestral of
\* tree i has returned (the root holds its sequence), the create_ancestral
\* of tree i only after its build, and a task changes the tree and the map
\* of its own index only.
C14_PhaseOrderAndOwnIndex ==
    [][\A i \in 1..Len(task) :
          (pc' = pc /\ Len(task') = Len(task)
             /\ task[i] = "pending" /\ task'[i] # "pending")
          => (/\ (pc = "evolve")
                 => (/\ IsSome(trees[i].root)
                     /\ IsSome(Unwrap(trees[i].root).sequence)
                     /\ Len(Unwrap(Unwrap(trees[i].root).sequence).nucleotides)
                           = trees[i].partition)
              /\ (pc = "ancestral") => IsSome(trees[i].root)
              /\ \A j \in 1..Len(trees) :
                    j # i => (/\ trees'[j] = trees[j]
                              /\ task'[j] = task[j]
                              /\ (pc = "evolve")
                                    => mutated_seqs'[j] = mutated_seqs[j])
              /\ (pc # "evolve") => mutated_seqs' = mutated_seqs)]_vars

\* the dfs_evolve of tree 2 has returned with its tips recorded while that
\* of tree 1 has not begun
C14_Witness ==
    /\ pc = "evolve"
    /\ task = << "pending", "done" >>
    /\ mutated_seqs[1] = {}
    /\ keys(mutated_seqs[2]) = {<<"A">>, <<"B">>}
    /\ IsSome(Unwrap(trees[1].root).sequence)

\* C12: when the tree file and the partition file differ in their number
\* of lines the loader fails and main aborts: no tree is handed to the
\* parallel loops and nothing is assembled or written.
C12_MismatchedLineCountsAbort ==
    (Len(tree_file) # Len(part_file))
       => (/\ pc \in {"load", "abort"}
           /\ assembled_seqs = {}
           /\ out = << >>)

(***************************************************************************)
(* The claims on the sequences.                                            *)
(***************************************************************************)
BaseCodes == {bases[1], bases[2], bases[3], bases[4]}

\* every symbol of the sequence is one of the four bases
AllBases(seq) ==
    \A i \in 1..Len(seq.nucleotides) : seq.nucleotides[i] \in BaseCodes

\* C15: every symbol of every sequence random or mutate made (the nodes'
\* sequences, the maps' sequences, the assembled strings, what a call
\* returned) is one of the four bases, and mutate fails on an input that
\* holds a symbol outside them.
C15_AlphabetClosure ==
    /\ \A i \in 1..Len(trees) :
          IsSome(trees[i].root)
             => \A q \in PathsOf(Unwrap(trees[i].root)) :
                   IsSome(node_at(Unwrap(trees[i].root), q).sequence)
                      => AllBases(Unwrap(node_at(Unwrap(trees[i].root),
                                                 q).sequence))
    /\ \A i \in 1..Len(mutated_seqs) :
          \A e \in mutated_seqs[i] : AllBases(e[2])
    /\ \A e \in assembled_seqs :
          \A j \in 1..Len(e[2]) : e[2][j] \in {"A", "G", "C", "T"}
    /\ (lab.op \in {"mutate", "random"} /\ IsSome(lab.ret))
          => (/\ AllBases(Unwrap(lab.ret))
              /\ Len(Unwrap(lab.ret).nucleotides)
                    = (IF lab.op = "mutate" THEN Len(lab.s.nucleotides)
                       ELSE lab.l))
    /\ (lab.op = "mutate" /\ ~AllBases(lab.s))
          => IsNone(lab.ret)

\* mutate failed on a sequence whose second symbol is N, the first a base
C15_Witness ==
    /\ lab.op = "mutate"
    /\ lab.s.nucleotides = << bases[1], 78 >>
    /\ lab.v = Num(Unit)
    /\ IsNone(lab.ret)

\* C20: in mutate's walk over a row, a draw that is below the remaining
\* weight at none of the four entries selects the last symbol of the row
\* and mutate returns: on a sequence of bases mutate never fails.
C20_WalkClampsToLast ==
    (lab.op = "mutate" /\ AllBases(lab.s))
       => (/\ IsSome(lab.ret)
           /\ \A i \in 1..Len(lab.s.nucleotides) :
                 Walk(matrix(lab.v)[row_of(lab.s.nucleotides[i])],
                      Num(lab.rs[i]), 1) = 0
                    => Unwrap(lab.ret).nucleotides[i] = bases[4])

(***************************************************************************)
(* The claims on the order of evolution within one tree.                   *)
(***************************************************************************)
\* the path of the parent of the node at a path that is not the root's
ParentPath(path) == SubSeq(path, 1, Len(path) - 1)

\* the turn of the loop pops a node pushed with a parent sequence
MutatingStep == EvolveStep /\ IsSome(dfs_top(trees[1]).parent_seq)

\* the sequences mutate can give from the sequence seq over the length v
Mutations(seq, v) ==
    {mutate(seq, v, rs) : rs \in TaskDraws(Len(seq.nucleotides))}

\* C16: in dfs_evolve a node that is not the root is popped with its own
\* parent's sequence, which is assigned by then, and its sequence becomes
\* mutate(the parent's sequence, the node's branch length), unless mutate
\* fails (an unnamed tip fails after the assignment); the root is popped
\* with no parent sequence and is not mutated.
C16_MutatedFromAssignedParent ==
    [][LET t == trees[1]
           u == trees'[1]
           path == dfs_top(t).node
           root == Unwrap(t.root)
       IN  /\ MutatingStep =>
                 /\ path # << >>
                 /\ dfs_top(t).parent_seq = Some(ParentPath(path))
                 /\ IsSome(node_at(root, ParentPath(path)).sequence)
                 /\ \/ u.call = "panic" /\ u.err = "mutate"
                    \/ node_at(Unwrap(u.root), path).sequence \in
                          Mutations(
                             Unwrap(node_at(root, ParentPath(path)).sequence),
                             node_at(root, path).branch_length)
           /\ (EvolveStep /\ ~MutatingStep) =>
                 /\ path = << >>
                 /\ u.call # "panic" =>
                       node_at(Unwrap(u.root), path).sequence
                          = node_at(root, path).sequence]_vars

\* dfs_evolve is in its loop on a chain of three nodes, the deepest one
\* mutated from the sequence of the middle one, which differs from the
\* root's
C16_Witness ==
    /\ trees[1].call = "evolve"
    /\ IsSome(trees[1].root)
    /\ Len(Unwrap(trees[1].root).children) = 1
    /\ Len(node_at(Unwrap(trees[1].root), <<1>>).children) = 1
    /\ IsSome(node_at(Unwrap(trees[1].root), <<1, 1>>).sequence)
    /\ node_at(Unwrap(trees[1].root), <<1>>).sequence
          # Unwrap(trees[1].root).sequence
    /\ node_at(Unwrap(trees[1].root), <<1, 1>>).sequence \in
          Mutations(Unwrap(node_at(Unwrap(trees[1].root), <<1>>).sequence),
                    node_at(Unwrap(trees[1].root), <<1, 1>>).branch_length)

\* the sequence of the node at a path of a tree
SequenceAt(t, path) == node_at(Unwrap(t.root), path).sequence

\* C19: mutate leaves its input as it was. From the entry of dfs_evolve to
\* its return the root keeps the sequence create_ancestral gave it; a turn
\* of the loop changes the sequence of the popped node only, so a node's
\* sequence stays as assigned while its children are mutated from it; and
\* at the return each node's sequence is still one that mutate gives from
\* its parent's.
C19_MutateLeavesInputUnchanged ==
    [][LET t == trees[1]
           u == trees'[1]
       IN  (t.call = "evolve" \/ u.call = "evolve") =>
              /\ IsSome(t.root) /\ IsSome(u.root)
              /\ PathsOf(Unwrap(u.root)) = PathsOf(Unwrap(t.root))
              /\ SequenceAt(u, << >>) = SequenceAt(t, << >>)
              /\ \A q \in PathsOf(Unwrap(t.root)) :
                    SequenceAt(u, q) # SequenceAt(t, q)
                       => MutatingStep /\ q = dfs_top(t).node
              /\ MutatingStep =>
                    SequenceAt(u, ParentPath(dfs_top(t).node))
                       = SequenceAt(t, ParentPath(dfs_top(t).node))
              /\ EvolveReturns =>
                    \A q \in PathsOf(Unwrap(t.root)) \ {<< >>} :
                       SequenceAt(u, q) \in
                          Mutations(Unwrap(SequenceAt(u, ParentPath(q))),
                                    node_at(Unwrap(u.root), q).branch_length)]_vars

\* dfs_evolve has returned on a root with two tips, both mutated from the
\* root's sequence and one of them differing from it
C19_Witness ==
    /\ trees[1].call = "idle"
    /\ IsSome(trees[1].root)
    /\ Len(Unwrap(trees[1].root).children) = 2
    /\ keys(mutated_seqs[1]) = {<<"A">>, <<"B">>}
    /\ IsSome(SequenceAt(trees[1], << >>))
    /\ \A i \in 1..2 :
          SequenceAt(trees[1], << i >>) \in
             Mutations(Unwrap(SequenceAt(trees[1], << >>)),
                       node_at(Unwrap(trees[1].root), << i >>).branch_length)
    /\ \E i \in 1..2 : SequenceAt(trees[1], << i >>) # SequenceAt(trees[1], << >>)

(***************************************************************************)
(* The claims on the fields of a node as the reader sets them.             *)
(***************************************************************************)
\* C17: when the loop of build_from_newick scans ':' its read_flag is 1, so
\* the buffer becomes the id of the current node and its branch length
\* stays; after the turn read_flag is 2 and the buffer is empty.
C17_ColonFinalizesId ==
    [][LET t == trees[1]
           u == trees'[1]
       IN  (BuildScan /\ Unwrap(c_o(t)) = ":") =>
              /\ t.loc.read_flag = 1
              /\ u.call = "build"
              /\ u.loc.read_flag = 2
              /\ u.loc.buffer = << >>
              /\ Unwrap(u.loc.curr_node)
                    = set_id(Unwrap(t.loc.curr_node), Trim(t.loc.buffer))]_vars

\* C18: a tree that is built holds at every node a branch length that is a
\* number and not negative.
C18_BranchLengthNonNegative ==
    IsSome(trees[1].root) =>
       \A q \in PathsOf(Unwrap(trees[1].root)) :
          LET d == node_at(Unwrap(trees[1].root), q).branch_length
          IN  d.k = "num" /\ d.v >= 0

\* C21: when the loop of build_from_newick starts a new current node, on
\* '(' or on ',', the buffer is empty and read_flag is 1 after the turn, so
\* the node's id and branch length come from the characters scanned after
\* it only.
C21_FreshNodeStartsClean ==
    [][LET t == trees[1]
           u == trees'[1]
       IN  (BuildScan /\ Unwrap(c_o(t)) \in {"(", ","} /\ u.call = "build") =>
              /\ u.loc.curr_node = Some(new_empty)
              /\ u.loc.buffer = << >>
              /\ u.loc.read_flag = 1]_vars

(***************************************************************************)
(* The claim on the termination of dfs_evolve.                             *)
(***************************************************************************)
\* the paths of the nodes at and under the node at path p
Under(n, p) == {p \o q : q \in PathsOf(node_at(n, p))}

\* the paths on the stack of dfs_evolve
Stacked(t) == {t.loc.estack[i].node : i \in 1..Len(t.loc.estack)}

\* the nodes dfs_evolve has still to pop: those at and under a stacked one
Unpopped(t) == UNION {Under(Unwrap(t.root), p) : p \in Stacked(t)}

\* no node is on the stack twice, nor under another stacked node
StackedApart(t) ==
    \A i, j \in 1..Len(t.loc.estack) :
       i # j => Under(Unwrap(t.root), t.loc.estack[i].node)
                   \cap Under(Unwrap(t.root), t.loc.estack[j].node) = {}

\* the tree is built and seeded and its tips are all named
Evolvable(t) ==
    /\ IsSome(t.root)
    /\ IsSome(Unwrap(t.root).sequence)
    /\ AllTipsNamed(Unwrap(t.root))

\* every node holds a sequence of the length of the partition
AllSequenced(t) ==
    /\ IsSome(t.root)
    /\ \A q \in PathsOf(Unwrap(t.root)) :
          /\ IsSome(SequenceAt(t, q))
          /\ Len(Unwrap(SequenceAt(t, q)).nucleotides) = t.partition
          /\ Unwrap(SequenceAt(t, q)).size = t.partition

\* C22: dfs_evolve on a built and seeded tree whose tips are all named
\* returns, its stack empty: it starts with every node to pop, each turn
\* pops one node that was still to pop and fails on none, no node is left
\* at the return, and every node then holds a sequence of the length of
\* the partition.
C22_EvolveTerminates ==
    /\ [][LET t == trees[1]
              u == trees'[1]
          IN  /\ (EvolveStart /\ Evolvable(t)) =>
                    /\ u.call = "evolve"
                    /\ Unpopped(u) = PathsOf(Unwrap(t.root))
                    /\ StackedApart(u)
              /\ (EvolveStep /\ Evolvable(t)) =>
                    /\ u.call = "evolve"
                    /\ dfs_top(t).node \in Unpopped(t)
                    /\ Unpopped(u) = Unpopped(t) \ {dfs_top(t).node}
                    /\ StackedApart(u)
              /\ (EvolveReturn /\ Evolvable(t)) =>
                    /\ t.loc.estack = << >>
                    /\ Unpopped(t) = {}
                    /\ AllSequenced(u)]_vars
    /\ (trees[1].call = "evolve" /\ Evolvable(trees[1]))
          ~> (trees[1].call = "idle" /\ AllSequenced(trees[1]))

====
